---- MODULE Spec2Model ----
(***************************************************************************)
(* TesseractIRC backend: the chat store (models.py: ChatModel,             *)
(* ChatListModel), the session registry (irc_client.py: IRCClient) and the *)
(* controller with its periodic update tick (app_controller.py:            *)
(* AppController), as one state machine.                                   *)
(*                                                                         *)
(* Conventions.  Python's None is the string None; the empty str is "".    *)
(* A dict is a function whose DOMAIN is its key set, the empty dict <<>>.  *)
(* A message text and a chat-list preview are tuples of strings (the       *)
(* pieces an f-string concatenates), the empty str being <<>>.             *)
(* datetime.now() / time.time() read the variable now; a handler that      *)
(* reads the clock twice may see it advance between the two reads.         *)
(* Init is a first start: the database holds no saved server to reconnect. *)
(* The database file is the state of DatabaseManager alone: the controller *)
(* writes to it and reads it back at start-up only, so the store and the   *)
(* registry never depend on it.  Spec and SpecSched leave it aside; SpecDb *)
(* and SpecSettings run every sequence of DatabaseManager calls, the       *)
(* controller's among them.                                                *)
(***************************************************************************)
EXTENDS Integers, Sequences, FiniteSets, TLC

\* ------------------------------------------------------------------ bounds
MaxClock == 4        \* the clock stops advancing here
MaxMsgs == 1         \* messages held by all chat histories together
MaxInbox == 1        \* decoded events one read of a socket delivers
MaxTimers == 1       \* pending single-shot timers
MaxChats == 3        \* entries of the ordered chat list
MaxModels == 3       \* ChatModel objects held by _chat_models
MaxRowId == 3        \* row ids a table of the database hands out
MaxGraceMsgs == 3    \* the same as MaxMsgs, in the runs of joins, parts and timers

\* ------------------------------------------------------- program constants
StartTime == 2           \* time.time() at start-up is far above the interval
MinInterval == 2         \* app_controller.py:308  (seconds)
GraceDelay == 1          \* app_controller.py:413  (1000 ms)
SecondsPerMinute == 60   \* strftime("%H:%M") of models.py:414

None == "None"
OwnNick == "me"
Servers == {"s1", "s2"}
GroupChannels == {"#a"}
PeerNicks == {"bob"}
Channels == GroupChannels \cup PeerNicks
Texts == {<<"hi">>}

\* str.startswith('#') or str.startswith('&') over the names of the model
StartsWithSigil(name) == name \in GroupChannels
IsPrivateName(channel) == ~StartsWithSigil(channel)

\* strftime("%H:%M"): minute resolution
FormatHM(t) == <<t \div SecondsPerMinute>>

VARIABLES
    chats,             \* ChatListModel._chats
    chat_models,       \* ChatListModel._chat_models
    active_server,     \* ChatListModel._active_server
    active_channel,    \* ChatListModel._active_channel
    clients,           \* IRCClient.clients, in dict insertion order
    updating,          \* AppController._updating
    last_update_time,  \* AppController._last_update_time
    frames,            \* activations of _check_for_new_messages / refresh_chat in flight
    timers,            \* pending QTimer.singleShot callbacks
    db,                \* the database file of DatabaseManager
    ledger,            \* history: what was saved to the database and not deleted since
    drains,            \* history: per server, the times of the ticks that drained it (the last two)
    reactor,           \* IRCClient.running and the state of IRCClient._thread
    msg_limit,         \* the messages the histories may hold together (fixed by the initial state)
    now                \* the clock

vars == <<chats, chat_models, active_server, active_channel, clients,
          updating, last_update_time, frames, timers, db, ledger, drains, reactor,
          msg_limit, now>>

\* -------------------------------------------------------------- dict helpers
Restrict(f, S) == IF S = {} THEN <<>> ELSE [x \in S |-> f[x]]
DictPut(f, k, v) == [x \in DOMAIN f \cup {k} |-> IF x = k THEN v ELSE f[x]]
DictDel(f, k) == Restrict(f, DOMAIN f \ {k})
DictGet(f, k, default) == IF k \in DOMAIN f THEN f[k] ELSE default

HasModel(cms, server, channel) == server \in DOMAIN cms /\ channel \in DOMAIN cms[server]
PutModel(cms, server, channel, model) ==
    DictPut(cms, server, DictPut(DictGet(cms, server, <<>>), channel, model))

\* ------------------------------------------------------------ models.py: Message
Message(sender, content, timestamp, is_system) ==
    [sender |-> sender, content |-> content, timestamp |-> timestamp,
     is_system |-> is_system]

\* ---------------------------------------------------------- models.py: ChatModel
ChatModel(t) ==
    [messages |-> <<>>, last_update_timestamp |-> t]

\* t1: the clock read by Message(), t2: the clock read for _last_update_timestamp
add_message(cm, sender, content, is_system, t1, t2) ==
    [cm EXCEPT !.messages = Append(@, Message(sender, content, t1, is_system)),
               !.last_update_timestamp = t2]

add_system_message(cm, content, t1, t2) ==
    add_message(cm, "System", content, TRUE, t1, t2)

force_data_changed(cm, t) ==
    IF Len(cm.messages) = 0 THEN cm ELSE [cm EXCEPT !.last_update_timestamp = t]

RECURSIVE MaxTimestamp(_)
MaxTimestamp(msgs) ==
    IF Len(msgs) = 1 THEN msgs[1].timestamp
    ELSE LET rest == MaxTimestamp(Tail(msgs))
         IN IF msgs[1].timestamp >= rest THEN msgs[1].timestamp ELSE rest

\* the value update_messages_if_needed returns
NeedsUpdate(cm) ==
    /\ Len(cm.messages) > 0
    /\ MaxTimestamp(cm.messages) > cm.last_update_timestamp

\* a check that takes the newest message's time stamp whatever it holds
AlwaysTakesTheNewest(cm) ==
    IF Len(cm.messages) = 0 THEN cm
    ELSE [cm EXCEPT !.last_update_timestamp = MaxTimestamp(cm.messages)]

\* the ChatModel after update_messages_if_needed
update_messages_if_needed(cm) ==
    IF NeedsUpdate(cm)
    THEN [cm EXCEPT !.last_update_timestamp = MaxTimestamp(cm.messages)]
    ELSE cm

\* ------------------------------------------------------ models.py: ChatListModel
\* The object as a record m; every method returns [m |-> the object after, ret |-> ...].
\* m.sig collects the signals emitted so far by the running handler.
NewChat(server, name, is_private) ==
    [name |-> name, server |-> server, is_private |-> is_private,
     unread_count |-> 0, last_message |-> <<>>, last_message_time |-> <<>>]

Matches(chat, server, name) == chat.server = server /\ chat.name = name

HasChat(cs, server, name) == \E i \in 1..Len(cs) : Matches(cs[i], server, name)

\* index of the first entry the loops of models.py stop at (0: none)
FirstIndex(cs, server, name) ==
    IF HasChat(cs, server, name)
    THEN CHOOSE i \in 1..Len(cs) :
             /\ Matches(cs[i], server, name)
             /\ \A j \in 1..(i - 1) : ~Matches(cs[j], server, name)
    ELSE 0

RemoveAt(s, i) == SubSeq(s, 1, i - 1) \o SubSeq(s, i + 1, Len(s))

RECURSIVE Without(_, _)
Without(cs, server) ==
    IF cs = <<>> THEN <<>>
    ELSE IF cs[1].server = server THEN Without(Tail(cs), server)
         ELSE <<cs[1]>> \o Without(Tail(cs), server)

Emit(m, signal) == [m EXCEPT !.sig = Append(@, signal)]

add_server(m, server) ==
    IF HasChat(m.chats, server, server)
    THEN [m |-> m, ret |-> FALSE]
    ELSE [m |-> [m EXCEPT !.chats = Append(@, NewChat(server, server, FALSE)),
                          !.chat_models = IF server \in DOMAIN @ THEN @
                                          ELSE DictPut(@, server, <<>>)],
          ret |-> TRUE]

add_channel(m, server, channel, is_private, t) ==
    IF HasChat(m.chats, server, channel)
    THEN [m |-> [m EXCEPT !.chat_models =
                     IF HasModel(@, server, channel) THEN @
                     ELSE PutModel(@, server, channel, ChatModel(t))],
          ret |-> TRUE]
    ELSE LET m1 == IF HasChat(m.chats, server, server) THEN m
                   ELSE add_server(m, server).m
         IN [m |-> [m1 EXCEPT !.chats = Append(@, NewChat(server, channel, is_private)),
                              !.chat_models = PutModel(@, server, channel, ChatModel(t))],
             ret |-> TRUE]

ClearActive(m) ==
    Emit([m EXCEPT !.active_server = None, !.active_channel = None],
         <<"activeChannelChanged", "", "">>)

remove_server(m, server) ==
    IF ~\E i \in 1..Len(m.chats) : m.chats[i].server = server
    THEN [m |-> m, ret |-> FALSE]
    ELSE LET m1 == [m EXCEPT !.chats = Without(@, server),
                             !.chat_models = DictDel(@, server)]
         IN [m |-> IF m.active_server = server THEN ClearActive(m1) ELSE m1,
             ret |-> TRUE]

remove_channel(m, server, channel) ==
    IF ~HasChat(m.chats, server, channel)
    THEN [m |-> m, ret |-> FALSE]
    ELSE LET m1 == [m EXCEPT !.chats = RemoveAt(@, FirstIndex(m.chats, server, channel)),
                             !.chat_models =
                                 IF HasModel(@, server, channel)
                                 THEN DictPut(@, server, DictDel(@[server], channel))
                                 ELSE @]
         IN [m |-> IF m.active_server = server /\ m.active_channel = channel
                   THEN ClearActive(m1) ELSE m1,
             ret |-> TRUE]

\* creates the ChatModel when the identity has none
get_chat_model(m, server, channel, t) ==
    IF HasModel(m.chat_models, server, channel) THEN m
    ELSE [m EXCEPT !.chat_models = PutModel(@, server, channel, ChatModel(t))]

\* a notification for every call, whatever was active before
AlwaysChanged(old_server, old_channel, server, channel) == TRUE

\* `if old_server != server or old_channel != channel`
ActiveChanged(old_server, old_channel, server, channel) ==
    old_server # server \/ old_channel # channel

ZeroUnread(cs, server, channel) ==
    LET i == FirstIndex(cs, server, channel)
    IN IF i = 0 THEN cs ELSE [cs EXCEPT ![i].unread_count = 0]

set_active_chat(m, server, channel, t) ==
    LET chat_exists == HasChat(m.chats, server, channel) IN
    IF ~chat_exists /\ channel # "" /\ server = ""
    THEN [m |-> m, ret |-> FALSE]
    ELSE LET m1 == IF ~chat_exists /\ channel # ""
                   THEN add_channel(m, server, channel, FALSE, t).m ELSE m
             m2 == [m1 EXCEPT !.active_server = server, !.active_channel = channel]
             m3 == IF server # "" /\ channel # ""
                   THEN [get_chat_model(m2, server, channel, t)
                            EXCEPT !.chats = ZeroUnread(@, server, channel)]
                   ELSE m2
         IN [m |-> IF ActiveChanged(m.active_server, m.active_channel, server, channel)
                   THEN Emit(m3, <<"activeChannelChanged", server, channel>>)
                   ELSE m3,
             ret |-> TRUE]

IsActive(m, server, channel) ==
    m.active_server = server /\ m.active_channel = channel

\* an update that counts nothing as unread
NeverCounts(m, server, channel, is_unread) == FALSE

\* an update that counts a message as unread whichever chat is active
CountsWhateverIsActive(m, server, channel, is_unread) == is_unread

\* `if is_unread and (self._active_server != server or self._active_channel != channel)`
CountsAsUnread(m, server, channel, is_unread) ==
    is_unread /\ ~IsActive(m, server, channel)

\* sender = None: no sender given
update_channel_info(m, server, channel, last_message, sender, is_unread, t) ==
    LET i == FirstIndex(m.chats, server, channel) IN
    IF i = 0 THEN [m |-> m, ret |-> FALSE]
    ELSE [m |-> [m EXCEPT
                   !.chats[i].last_message =
                       IF sender # None /\ sender # ""
                       THEN <<sender, ": ">> \o last_message ELSE last_message,
                   !.chats[i].last_message_time = FormatHM(t),
                   !.chats[i].unread_count =
                       IF CountsAsUnread(m, server, channel, is_unread) THEN @ + 1 ELSE @],
          ret |-> TRUE]

add_message_to_chat(m, server, channel, sender, content, t1, t2) ==
    LET m1 == get_chat_model(m, server, channel, t1)
        m2 == [m1 EXCEPT !.chat_models[server][channel] =
                  add_message(@, sender, content, FALSE, t1, t2)]
        i == FirstIndex(m2.chats, server, channel)
    IN [m |-> IF i = 0 THEN m2
              ELSE [m2 EXCEPT
                      !.chats[i].last_message = <<sender, ": ">> \o content,
                      !.chats[i].last_message_time = FormatHM(t2),
                      !.chats[i].unread_count =
                          IF ~IsActive(m, server, channel) THEN @ + 1 ELSE @],
        ret |-> TRUE]

add_system_message_to_chat(m, server, channel, content, t1, t2) ==
    LET m1 == get_chat_model(m, server, channel, t1)
    IN [m |-> [m1 EXCEPT !.chat_models[server][channel] =
                  add_system_message(@, content, t1, t2)],
        ret |-> TRUE]

\* ------------------------------------------- app_controller.py: event handlers
\* Each takes the store record m and returns it after the handler ran.
on_message_received(m, server, channel, sender, message, t1, t2) ==
    LET m1 == get_chat_model(m, server, channel, t1)
        m2 == [m1 EXCEPT !.chat_models[server][channel] =
                  add_message(@, sender, message, FALSE, t1, t2)]
        m3 == update_channel_info(m2, server, channel, message, sender, TRUE, t2).m
    IN Emit(m3, <<"messagesUpdated", server, channel>>)

on_server_connected(m, server, t1, t2) ==
    Emit(add_system_message_to_chat(m, server, server,
                                    <<"Connected to server ", server>>, t1, t2).m,
         <<"connectionStatusChanged", server, "True">>)

on_server_disconnected(m, server) ==
    Emit(m, <<"connectionStatusChanged", server, "False">>)

on_channel_joined(m, server, channel, t1, t2) ==
    LET m1 == add_channel(m, server, channel, IsPrivateName(channel), t1).m
        m2 == get_chat_model(m1, server, channel, t1)
        m3 == [m2 EXCEPT !.chat_models[server][channel] =
                  add_system_message(@, <<"You joined channel ", channel>>, t1, t2)]
    IN Emit(m3, <<"channelJoined", server, channel>>)

\* QTimer.singleShot(1000, ...): the callback is due one grace delay later
on_channel_left(m, server, channel, t1, t2) ==
    LET m1 == add_system_message_to_chat(m, server, channel,
                                         <<"You left channel ", channel>>, t1, t2).m
    IN [m1 EXCEPT !.timers = Append(@, [server |-> server, channel |-> channel,
                                        due |-> t2 + GraceDelay])]

\* ------------------------------------- irc_client.py: _IRCClientImpl callbacks
Event(type, target, nick, text) ==
    [type |-> type, target |-> target, nick |-> nick, text |-> text]

\* a session that takes every JOIN and PART for its own
AnyNick(nick, nickname) == TRUE

\* `if nick == connection.get_nickname():`
IsOwn(nick, nickname) == nick = nickname

\* one decoded event of the connection of `server`, whose own nickname is `nickname`
Dispatch(m, server, nickname, ev, t1, t2) ==
    CASE ev.type = "welcome" -> on_server_connected(m, server, t1, t2)
      [] ev.type = "join" ->
            IF IsOwn(ev.nick, nickname) THEN on_channel_joined(m, server, ev.target, t1, t2)
            ELSE m
      [] ev.type = "part" ->
            IF IsOwn(ev.nick, nickname) THEN on_channel_left(m, server, ev.target, t1, t2)
            ELSE m
      [] ev.type = "privmsg" ->
            on_message_received(m, server, ev.nick, ev.nick, ev.text, t1, t2)
      [] ev.type = "pubmsg" ->
            on_message_received(m, server, ev.target, ev.nick, ev.text, t1, t2)

\* connection.process_data(): every event readable on the socket, in order
RECURSIVE ProcessData(_, _, _, _, _, _)
ProcessData(m, server, nickname, events, t1, t2) ==
    IF events = <<>> THEN m
    ELSE ProcessData(Dispatch(m, server, nickname, Head(events), t1, t2),
                     server, nickname, Tail(events), t1, t2)

\* ------------------------------------------------ irc_client.py: IRCClient
Registered(cl, server) == \E i \in 1..Len(cl) : cl[i].server = server

ClientOf(cl, server) == cl[CHOOSE i \in 1..Len(cl) : cl[i].server = server]

get_servers(cl) == [i \in 1..Len(cl) |-> cl[i].server]

\* a registry that forgets no session
KeepClient(cl, server) == cl

RECURSIVE DelClient(_, _)
DelClient(cl, server) ==
    IF cl = <<>> THEN <<>>
    ELSE IF cl[1].server = server THEN Tail(cl)
         ELSE <<cl[1]>> \o DelClient(Tail(cl), server)

\* a poll that takes every session for a live one
AlwaysPolls(cl, server) == TRUE

\* what process_once(server) returns: the session is registered and its socket valid
ProcessOnceResult(cl, server) ==
    Registered(cl, server) /\ ClientOf(cl, server).socket = "open"

\* the store after process_once(server); `readable`: the events the read delivers
process_once(m, cl, readable, server, t1, t2) ==
    IF ProcessOnceResult(cl, server)
    THEN ProcessData(m, server, ClientOf(cl, server).nickname, readable, t1, t2)
    ELSE m

\* ------------------------------------------- irc_client.py: the reactor thread
\* `reactor` is [running |-> self.running, thread |-> self._thread], the thread
\* being None, "alive" or "exited".
NewReactor == [running |-> FALSE, thread |-> None]

\* start_reactor: nothing while the thread it holds is alive
start_reactor(r) ==
    IF r.thread = "alive" THEN r ELSE [running |-> TRUE, thread |-> "alive"]

\* `if not self.running: self.start_reactor()`, after a session was registered
after_connect(r) == IF ~r.running THEN start_reactor(r) ELSE r

\* stop_reactor: the flag goes down and the caller waits up to a second for
\* the thread; joined: the thread has seen the flag and ended within it
stop_reactor(r, joined) ==
    [running |-> FALSE,
     thread |-> IF r.thread = "alive" /\ joined THEN "exited" ELSE r.thread]

\* The sessions whose sockets self.reactor polls.  Every _IRCClientImpl is a
\* SimpleIRCClient, which opens its connection through a Reactor of its own;
\* nothing opens a connection through the Reactor of IRCClient.
ReactorSessions(cl) == <<>>

\* a connection that calls the slot in the thread of the emitter
AlwaysDirect(emitter, receiver) == "direct"

\* signal.connect(slot) without a connection type: the slot is called at once
\* when the signal is emitted in the receiver's thread, and posted to the
\* receiver's event loop otherwise
ConnectionType(emitter, receiver) ==
    IF emitter = receiver THEN "direct" ELSE "queued"

\* A callback of a session runs in `context` ("owner": the thread of the Qt
\* event loop, in which the controller lives; "reactor": the thread of
\* _reactor_loop) and emits its signal: the store
\* after the emit, the context that ran the handler (None: not run yet), and
\* what was posted to the event loop of the owner.
Deliver(m, context, server, nickname, ev, t1, t2) ==
    IF ConnectionType(context, "owner") = "direct"
    THEN [m |-> Dispatch(m, server, nickname, ev, t1, t2), ran_in |-> context,
          posted |-> <<>>]
    ELSE [m |-> m, ran_in |-> None, posted |-> <<ev>>]

\* self.reactor.process_once(0.1), called by the reactor thread: the callbacks
\* of the sessions of that reactor run in it, on the event read
reactor_process_once(m, cl, ev, t1, t2) ==
    LET polled == ReactorSessions(cl) IN
    IF polled = <<>> THEN m
    ELSE Deliver(m, "reactor", polled[1], ClientOf(cl, polled[1]).nickname,
                 ev, t1, t2).m

\* ------------------------------------------------ database.py: DatabaseManager
\* The database file as a record d: the rows of the three tables, the largest
\* row id each AUTOINCREMENT table has handed out (sqlite_sequence), and
\* whether the SQLite build enforces foreign keys (no PRAGMA is issued: the
\* build's default decides).  Every method returns [db |-> the file after,
\* ret |-> the value returned].
NewDatabase(foreign_keys) ==
    [servers |-> {}, channels |-> {}, user_settings |-> <<>>,
     seq_servers |-> 0, seq_channels |-> 0, foreign_keys |-> foreign_keys]

\* `1 if flag else 0` on the way in, bool(row[...]) on the way out
BoolToInt(flag) == IF flag THEN 1 ELSE 0
IntToBool(n) == n # 0

\* SELECT id FROM servers WHERE server_name = ?  (fetchone)
HasServerRow(d, server_name) == \E r \in d.servers : r.server_name = server_name
ServerRowOf(d, server_name) == CHOOSE r \in d.servers : r.server_name = server_name

\* a table whose new row takes the id after the largest id present
ReusedRowId(seq, ids) == IF ids = {} THEN 1 ELSE (CHOOSE i \in ids : \A j \in ids : j <= i) + 1

\* INTEGER PRIMARY KEY AUTOINCREMENT: the id after the largest ever handed out
NextRowId(seq, ids) == seq + 1

save_server(d, server_name, port, nickname, username, realname, t) ==
    IF HasServerRow(d, server_name)
    THEN LET old == ServerRowOf(d, server_name)
         IN [db |-> [d EXCEPT !.servers = (@ \ {old}) \cup
                        {[old EXCEPT !.port = port, !.nickname = nickname,
                                     !.username = username, !.realname = realname,
                                     !.last_connected = t]}],
             ret |-> TRUE]
    ELSE LET id == NextRowId(d.seq_servers, {r.id : r \in d.servers})
         IN [db |-> [d EXCEPT !.servers = @ \cup
                        {[id |-> id, server_name |-> server_name, port |-> port,
                          nickname |-> nickname, username |-> username,
                          realname |-> realname, last_connected |-> t]},
                              !.seq_servers = IF id > @ THEN id ELSE @],
             ret |-> TRUE]

\* SELECT id FROM channels WHERE server_id = ? AND channel_name = ?
ChannelRows(d, server_id, channel_name) ==
    {r \in d.channels : r.server_id = server_id /\ r.channel_name = channel_name}

save_channel(d, server_name, channel_name, is_private, auto_join) ==
    IF ~HasServerRow(d, server_name) THEN [db |-> d, ret |-> FALSE]
    ELSE LET server_id == ServerRowOf(d, server_name).id
             found == ChannelRows(d, server_id, channel_name)
         IN IF found # {}
            THEN [db |-> [d EXCEPT !.channels = (@ \ found) \cup
                           {[r EXCEPT !.is_private = BoolToInt(is_private),
                                      !.auto_join = BoolToInt(auto_join)] : r \in found}],
                  ret |-> TRUE]
            ELSE LET id == NextRowId(d.seq_channels, {r.id : r \in d.channels})
                 IN [db |-> [d EXCEPT !.channels = @ \cup
                                {[id |-> id, server_id |-> server_id,
                                  channel_name |-> channel_name,
                                  is_private |-> BoolToInt(is_private),
                                  auto_join |-> BoolToInt(auto_join)]},
                                      !.seq_channels = IF id > @ THEN id ELSE @],
                     ret |-> TRUE]

\* a result set, given as pairs <<sort key, dict>>, as the list fetchall returns
RECURSIVE RowsInOrder(_)
RowsInOrder(keyed) ==
    IF keyed = {} THEN <<>>
    ELSE LET first == CHOOSE r \in keyed : \A o \in keyed : r[1] <= o[1]
         IN <<first[2]>> \o RowsInOrder(keyed \ {first})

\* ORDER BY last_connected DESC; rows of one second in the order of their ids
MostRecentFirst(r) == (0 - r.last_connected) * (MaxRowId + 2) + r.id
ServerDict(r) ==
    [id |-> r.id, server |-> r.server_name, port |-> r.port, nickname |-> r.nickname,
     username |-> r.username, realname |-> r.realname,
     last_connected |-> r.last_connected]

get_all_servers(d) == RowsInOrder({<<MostRecentFirst(r), ServerDict(r)>> : r \in d.servers})

ChannelDict(r) ==
    [id |-> r.id, name |-> r.channel_name, is_private |-> IntToBool(r.is_private),
     auto_join |-> IntToBool(r.auto_join)]

\* FROM channels c JOIN servers s ON c.server_id = s.id WHERE s.server_name = ?
get_channels_for_server(d, server_name) ==
    RowsInOrder({<<c.id, ChannelDict(c)>> : c \in
                    {c \in d.channels :
                        \E s \in d.servers : s.server_name = server_name
                                             /\ c.server_id = s.id}})

\* a delete that removes no row
DeleteNothing(d, server_name) == [db |-> d, ret |-> FALSE]

\* ON DELETE CASCADE acts where the build enforces foreign keys
delete_server(d, server_name) ==
    LET gone == {r \in d.servers : r.server_name = server_name}
        ids == {r.id : r \in gone}
    IN [db |-> [d EXCEPT !.servers = @ \ gone,
                         !.channels = IF d.foreign_keys
                                      THEN {c \in @ : c.server_id \notin ids} ELSE @],
        ret |-> gone # {}]

delete_channel(d, server_name, channel_name) ==
    IF ~HasServerRow(d, server_name) THEN [db |-> d, ret |-> FALSE]
    ELSE LET found == ChannelRows(d, ServerRowOf(d, server_name).id, channel_name)
         IN [db |-> [d EXCEPT !.channels = @ \ found], ret |-> found # {}]

save_user_setting(d, key, value) ==
    [db |-> [d EXCEPT !.user_settings = DictPut(@, key, value)], ret |-> TRUE]

get_user_setting(d, key, default_value) == DictGet(d.user_settings, key, default_value)

\* a profile that stores an empty name as it is
KeepsEmpty(value, nickname) == value

\* `if not username: username = nickname`
OrNickname(value, nickname) == IF value = "" \/ value = None THEN nickname ELSE value

save_user_profile(d, nickname, username, realname) ==
    LET d1 == save_user_setting(d, "nickname", nickname).db
        d2 == save_user_setting(d1, "username", OrNickname(username, nickname)).db
        d3 == save_user_setting(d2, "realname", OrNickname(realname, nickname)).db
    IN [db |-> d3, ret |-> TRUE]

\* `fresh`: the nickname random.randint makes up when none is stored
get_user_profile(d, fresh) ==
    LET nickname == get_user_setting(d, "nickname", fresh)
    IN [nickname |-> nickname,
        username |-> get_user_setting(d, "username", nickname),
        realname |-> get_user_setting(d, "realname", nickname)]

\* ------------------------------------------------------------ state plumbing
Store ==
    [chats |-> chats, chat_models |-> chat_models, active_server |-> active_server,
     active_channel |-> active_channel, sig |-> <<>>, timers |-> timers]

ModelKeys(cms) == {k \in (DOMAIN cms) \X (Channels \cup Servers) : k[2] \in DOMAIN cms[k[1]]}

RECURSIVE SumLen(_, _)
SumLen(cms, keys) ==
    IF keys = {} THEN 0
    ELSE LET k == CHOOSE x \in keys : TRUE
         IN Len(cms[k[1]][k[2]].messages) + SumLen(cms, keys \ {k})

WithinBounds(m) ==
    /\ Len(m.chats) <= MaxChats
    /\ Len(m.timers) <= MaxTimers
    /\ Cardinality(ModelKeys(m.chat_models)) <= MaxModels
    /\ SumLen(m.chat_models, ModelKeys(m.chat_models)) <= msg_limit

\* the handler's effect on the store; the signals it emitted (m.sig) are not state
CommitStore(m) ==
    /\ WithinBounds(m)
    /\ chats' = m.chats
    /\ chat_models' = m.chat_models
    /\ active_server' = m.active_server
    /\ active_channel' = m.active_channel
    /\ timers' = m.timers
    /\ UNCHANGED <<db, ledger, msg_limit>>

\* the same for a step that starts or ends no reactor thread
Commit(m) == CommitStore(m) /\ UNCHANGED reactor

\* what was saved and not deleted since: the saved servers with their latest
\* arguments, the channels saved under each of them, the settings
NewLedger == [servers |-> <<>>, channels |-> <<>>, settings |-> <<>>]

Init ==
    /\ chats = <<>>
    /\ chat_models = <<>>
    /\ active_server = None
    /\ active_channel = None
    /\ clients = <<>>
    /\ updating = FALSE
    /\ last_update_time = <<>>
    /\ frames = <<>>
    /\ timers = <<>>
    /\ drains = <<>>
    /\ reactor = NewReactor
    /\ msg_limit = MaxMsgs
    /\ db = NewDatabase(FALSE)
    /\ ledger = NewLedger
    /\ now = StartTime

ArgServers == Servers \cup {""}

\* ------------------------------------------------------ clock and registry
sched == <<updating, last_update_time, frames, drains>>

\* a handler that reads the clock twice: t1 first, t2 = the later read, D the
\* amounts by which the clock may have advanced in between
ClockReads(t1, t2, D) ==
    t1 = now /\ t2 \in {now + d : d \in D} /\ t2 <= MaxClock /\ now' = t2

NewClient(server) == [server |-> server, nickname |-> OwnNick, socket |-> "open"]

\* connection.join / part / privmsg raise when the connection has no socket
SocketUsable(cl, server) == ClientOf(cl, server).socket = "open"

\* ------------------------------------- the slots as functions of the state
\* What a slot leaves: the store m, the registry, the value it returns ("True",
\* "False", or "raise": an exception leaves the slot) and whether it handed a
\* message to the connection (wire).
Outcome(m, cl, ret) == [m |-> m, clients |-> cl, ret |-> ret, wire |-> FALSE]

\* how an attempt to reach a server ends: it answers with its welcome; the
\* socket connect fails; or the socket connects and the handshake then fails
ConnectOutcomes == {"welcome", "unreachable", "rejected"}

\* client.connect(...) returns once the socket is connected and the
\* registration is sent; it raises ServerConnectionError when the socket fails
SocketConnects(outcome) == outcome # "unreachable"

\* a registry that takes a second session for a server it holds
NeverConnected(cl, server) == FALSE

\* `if server in self.clients: return False`
AlreadyConnected(cl, server) == Registered(cl, server)

\* `ok`: whether the socket connect of the protocol library succeeds
IRCClient_connect_to_server(cl, server, ok) ==
    IF AlreadyConnected(cl, server) THEN [clients |-> cl, ret |-> FALSE]
    ELSE IF ok THEN [clients |-> Append(cl, NewClient(server)), ret |-> TRUE]
    ELSE [clients |-> cl, ret |-> FALSE]

connect_to_server(m, cl, server, ok) ==
    IF server = ""
    THEN Outcome(Emit(m, <<"errorOccurred", "Server address not specified">>), cl, "False")
    ELSE LET r == IRCClient_connect_to_server(cl, server, ok) IN
         IF r.ret
         THEN Outcome(add_server(m, server).m, r.clients, "True")
         ELSE Outcome(Emit(m, <<"errorOccurred", "Failed to connect to server", server>>),
                      cl, "False")

\* IRCClient.disconnect_from_server: connection.disconnect sends the quit
\* notification if it can and does not report whether it could
disconnect_from_server(m, cl, server) ==
    IF server = "" THEN Outcome(m, cl, "False")
    ELSE LET m1 == IF Registered(cl, server)
                   THEN on_server_disconnected(m, server) ELSE m
         IN Outcome(remove_server(m1, server).m, DelClient(cl, server), "True")

\* a join that asks no registry
JoinsUnchecked(cl, server) == "True"

IRCClient_join_channel(cl, server) ==
    IF ~Registered(cl, server) THEN "False"
    ELSE IF ~SocketUsable(cl, server) THEN "raise"
    ELSE "True"

join_channel(m, cl, server, channel) ==
    IF server = "" \/ channel = "" THEN Outcome(m, cl, "False")
    ELSE LET result == IRCClient_join_channel(cl, server) IN
         IF result = "False"
         THEN Outcome(Emit(m, <<"errorOccurred", "Failed to join channel", channel, server>>),
                      cl, "False")
         ELSE Outcome(m, cl, result)

leave_channel(m, cl, server, channel) ==
    IF server = "" \/ channel = "" THEN Outcome(m, cl, "False")
    ELSE IF Registered(cl, server) /\ ~SocketUsable(cl, server)
    THEN Outcome(m, cl, "raise")
    ELSE Outcome(remove_channel(m, server, channel).m, cl, "True")

\* a client that sends to any target
NoServerTarget(server, target) == FALSE

\* `if target == server: return False`
IsServerTarget(server, target) == target = server

\* the connection after a write the socket refused: the library drops the socket
AfterWrite(cl, server, write_ok) ==
    IF write_ok THEN cl
    ELSE [i \in 1..Len(cl) |->
             IF cl[i].server = server THEN [cl[i] EXCEPT !.socket = "closed"] ELSE cl[i]]

\* IRCClient.send_message.  privmsg raises on a connection without socket (the
\* except clause returns False); on a connection with a socket it returns,
\* whether the socket took the bytes (write_ok) or not.  echo: message_received
\* was emitted.
IRCClient_send_message(cl, server, target, write_ok) ==
    IF ~Registered(cl, server) \/ IsServerTarget(server, target)
    THEN [clients |-> cl, ret |-> FALSE, wire |-> FALSE, echo |-> FALSE]
    ELSE IF ~SocketUsable(cl, server)
    THEN [clients |-> cl, ret |-> FALSE, wire |-> FALSE, echo |-> FALSE]
    ELSE [clients |-> AfterWrite(cl, server, write_ok), ret |-> TRUE,
          wire |-> TRUE, echo |-> TRUE]

send_message(m, cl, server, channel, message, write_ok, t1, t2) ==
    IF server = "" \/ channel = "" \/ message = <<>> THEN Outcome(m, cl, "False")
    ELSE IF ~HasChat(m.chats, server, channel)
    THEN Outcome(Emit(m, <<"errorOccurred", "Channel not found", channel, server>>),
                 cl, "False")
    ELSE LET r == IRCClient_send_message(cl, server, channel, write_ok) IN
         IF r.echo
         THEN [Outcome(on_message_received(m, server, channel,
                                           ClientOf(cl, server).nickname,
                                           message, t1, t2),
                       r.clients, "True") EXCEPT !.wire = r.wire]
         ELSE Outcome(m, cl, "False")

\* --------------------------------------------- app_controller.py: the slots
\* `ok`: whether the socket connect of the protocol library succeeds
ConnectToServer(server, ok) ==
    LET r == connect_to_server(Store, clients, server, ok) IN
    /\ clients' = r.clients
    /\ reactor' = IF Registered(r.clients, server) /\ ~Registered(clients, server)
                  THEN after_connect(reactor) ELSE reactor
    /\ CommitStore(r.m)
    /\ UNCHANGED <<sched, now>>

DisconnectFromServer(server) ==
    LET r == disconnect_from_server(Store, clients, server) IN
    /\ clients' = r.clients
    /\ Commit(r.m)
    /\ UNCHANGED <<sched, now>>

JoinChannel(server, channel) ==
    LET r == join_channel(Store, clients, server, channel) IN
    /\ clients' = r.clients
    /\ Commit(r.m)
    /\ UNCHANGED <<sched, now>>

LeaveChannel(server, channel) ==
    LET r == leave_channel(Store, clients, server, channel) IN
    /\ clients' = r.clients
    /\ Commit(r.m)
    /\ UNCHANGED <<sched, now>>

SendMessage(server, channel, message, D) ==
    /\ \E write_ok \in BOOLEAN, t1, t2 \in StartTime..MaxClock :
          LET r == send_message(Store, clients, server, channel, message,
                                write_ok, t1, t2)
          IN /\ IF r.ret = "True" THEN ClockReads(t1, t2, D)
                ELSE t1 = now /\ t2 = now /\ write_ok /\ UNCHANGED now
             /\ clients' = r.clients
             /\ Commit(r.m)
    /\ UNCHANGED sched

SetActiveChat(server, channel) ==
    LET r == set_active_chat(Store, server, channel, now) IN
    /\ Commit(r.m)
    /\ UNCHANGED <<clients, sched, now>>

ActivateChannel(server, channel) ==
    LET r == set_active_chat(Store, server, channel, now) IN
    /\ Commit(IF r.ret THEN Emit(r.m, <<"channelJoined", server, channel>>) ELSE r.m)
    /\ UNCHANGED <<clients, sched, now>>

GetChatModel(server, channel) ==
    LET m1 == get_chat_model(Store, server, channel, now) IN
    /\ Commit(m1)
    /\ UNCHANGED <<clients, sched, now>>

\* the callback of QTimer.singleShot in _on_channel_left
\* a timer that fires as soon as it is set
AlwaysDue(timer, t) == TRUE

\* QTimer.singleShot(1000, ...): the callback runs once the delay has passed
Due(timer, t) == timer.due <= t

\* the store after the timer i has fired: the callback removes its channel
Fired(m, i) ==
    remove_channel([m EXCEPT !.timers = RemoveAt(@, i)],
                   m.timers[i].server, m.timers[i].channel).m

TimerFire(i) ==
    /\ i \in 1..Len(timers)
    /\ Due(timers[i], now)
    /\ Commit(Fired(Store, i))
    /\ UNCHANGED <<clients, sched, now>>

\* ---------------------------------------------------------------- environment
\* what the protocol library can decode from one connection
InboundEvents ==
    {Event("welcome", "", "", <<>>)}
    \cup {Event(k, ch, n, <<>>) : k \in {"join", "part"}, ch \in GroupChannels,
                                  n \in {OwnNick} \cup PeerNicks}
    \cup {Event("pubmsg", ch, n, x) : ch \in GroupChannels, n \in PeerNicks, x \in Texts}
    \cup {Event("privmsg", OwnNick, n, x) : n \in PeerNicks, x \in Texts}

\* the events one read of a socket can deliver, oldest first, out of `events`
Readable(events) == UNION {[1..n -> events] : n \in 0..MaxInbox}

\* ------------------------- app_controller.py: the update tick and refresh_chat
\* The owner thread runs one slot at a time.  While an activation of the tick or
\* of refresh_chat is in flight (a frame), the calls that can begin are the ones
\* observers of its signals make re-entrantly: the two guarded slots.
Frame(kind, time, servers, server, channel) ==
    [kind |-> kind, time |-> time, servers |-> servers, server |-> server,
     channel |-> channel]

Idle == frames = <<>>
Top == frames[Len(frames)]
Pop(fs) == SubSeq(fs, 1, Len(fs) - 1)
ReplaceTop(fs, f) == Append(Pop(fs), f)

\* a tick that begins whatever is in flight
AlwaysEnters == TRUE

\* `if self._updating: return`
TickMayEnter == ~updating

\* an activation that leaves the guard as it holds it
NoRelease(held) == held

\* `finally: self._updating = False`
Release(held) == FALSE

\* a refresh that begins whatever is in flight
RefreshAlwaysEnters == TRUE

\* `if self._updating: return False`
RefreshMayEnter == ~updating

\* lines 317-329: the chats of `server` after a drain that reported data
Reconcile(m, server) ==
    IF server \notin DOMAIN m.chat_models \/ DOMAIN m.chat_models[server] = {} THEN m
    ELSE LET channels == m.chat_models[server]
             active_here == /\ m.active_server = server
                            /\ m.active_channel \in DOMAIN channels
             m1 == IF active_here /\ NeedsUpdate(channels[m.active_channel])
                   THEN Emit(m, <<"messagesUpdated", server, m.active_channel>>)
                   ELSE m
         IN [m1 EXCEPT !.chat_models[server] =
                [c \in DOMAIN channels |->
                    IF c # m.active_channel \/ active_here
                    THEN update_messages_if_needed(channels[c])
                    ELSE channels[c]]]

CheckForNewMessages ==
    IF ~TickMayEnter
    THEN Commit(Store) /\ UNCHANGED <<clients, sched, now>>
    ELSE IF get_servers(clients) = <<>>
    THEN /\ Commit(Store)
         /\ updating' = Release(TRUE)
         /\ UNCHANGED <<clients, last_update_time, frames, drains, now>>
    ELSE /\ Commit(Store)
         /\ updating' = TRUE
         /\ frames' = Append(frames, Frame("tick", now, get_servers(clients), "", ""))
         /\ UNCHANGED <<clients, last_update_time, drains, now>>

\* a limiter that lets no tick poll
AlwaysTooSoon(current_time, last_update) == TRUE

\* a limiter that lets every tick poll
NeverTooSoon(current_time, last_update) == FALSE

\* `if current_time - last_update < 2.0: continue`
TooSoon(current_time, last_update) == current_time - last_update < MinInterval

\* One iteration of `for server in servers` (lines 306-329) of a tick that read
\* current_time at its start.  drained: process_once was called; reconciled:
\* lines 317-329 were reached.
tick_server(m, cl, lut, server, current_time, readable, t1, t2) ==
    IF TooSoon(current_time, DictGet(lut, server, 0))
    THEN [m |-> m, last_update_time |-> lut, drained |-> FALSE, reconciled |-> FALSE]
    ELSE LET polled == ProcessOnceResult(cl, server)
             m1 == process_once(m, cl, readable, server, t1, t2)
         IN [m |-> IF polled THEN Reconcile(m1, server) ELSE m1,
             last_update_time |-> DictPut(lut, server, current_time),
             drained |-> TRUE, reconciled |-> polled]

\* the history after the tick that read `current_time` drained `server`
Drained(log, server, current_time) ==
    LET old == DictGet(log, server, <<>>)
    IN DictPut(log, server,
               IF old = <<>> THEN <<current_time>>
               ELSE <<old[Len(old)], current_time>>)

\* a loop that ends at the first poll that fails
BreakOnFailure(servers, failed) == IF failed THEN <<>> ELSE Tail(servers)

\* `if not update_result: continue`: the servers the loop still has to visit
Continue(servers, failed) == Tail(servers)

\* one iteration of the loop; E: the events the server may have sent
TickServer(E, D) ==
    /\ frames # <<>> /\ Top.kind = "tick" /\ Top.servers # <<>>
    /\ LET server == Head(Top.servers)
       IN \E readable \in Readable(E), t1, t2 \in StartTime..MaxClock :
            LET r == tick_server(Store, clients, last_update_time, server,
                                 Top.time, readable, t1, t2)
            IN /\ IF r.drained
                  THEN /\ ClockReads(t1, t2, D)
                       /\ ~r.reconciled => readable = <<>>
                       /\ readable = <<>> => t2 = t1
                       /\ drains' = Drained(drains, server, Top.time)
                  ELSE /\ readable = <<>> /\ t1 = now /\ t2 = now
                       /\ UNCHANGED <<drains, now>>
               /\ last_update_time' = r.last_update_time
               /\ Commit(r.m)
               /\ frames' = ReplaceTop(frames,
                      [Top EXCEPT !.servers = Continue(@, r.drained /\ ~r.reconciled)])
    /\ UNCHANGED <<clients, updating>>

\* `finally: self._updating = False`
TickEnd ==
    /\ frames # <<>> /\ Top.kind = "tick" /\ Top.servers = <<>>
    /\ frames' = Pop(frames)
    /\ updating' = Release(TRUE)
    /\ Commit(Store)
    /\ UNCHANGED <<clients, last_update_time, drains, now>>

\* An exception inside the try block of the activation in flight (after a
\* drain, which itself lets none out): the except clause logs it, the rest of
\* the activation is skipped, the finally clause runs.
FrameRaises ==
    /\ frames # <<>>
    /\ frames' = Pop(frames)
    /\ updating' = Release(TRUE)
    /\ Commit(Store)
    /\ UNCHANGED <<clients, last_update_time, drains, now>>

\* One iteration of _reactor_loop, in the reactor thread, whatever the owner
\* thread is doing: the loop ends when the flag is down, and otherwise polls
\* the reactor of IRCClient.
ReactorLoop ==
    /\ reactor.thread = "alive"
    /\ reactor' = IF reactor.running THEN reactor
                  ELSE [reactor EXCEPT !.thread = "exited"]
    /\ \E ev \in InboundEvents :
           CommitStore(reactor_process_once(Store, clients, ev, now, now))
    /\ UNCHANGED <<clients, sched, now>>

StopReactor ==
    /\ \E joined \in BOOLEAN : reactor' = stop_reactor(reactor, joined)
    /\ CommitStore(Store)
    /\ UNCHANGED <<clients, sched, now>>

RefreshChat(server, channel) ==
    IF ~RefreshMayEnter
    THEN Commit(Store) /\ UNCHANGED <<clients, sched, now>>
    ELSE IF server = "" \/ channel = "" \/ ~Registered(clients, server)
    THEN /\ Commit(Store)
         /\ updating' = Release(TRUE)
         /\ UNCHANGED <<clients, last_update_time, frames, drains, now>>
    ELSE /\ Commit(Store)
         /\ updating' = TRUE
         /\ frames' = Append(frames, Frame("refresh", now, <<>>, server, channel))
         /\ UNCHANGED <<clients, last_update_time, drains, now>>

\* lines 355-363
RefreshBody(m, server, channel, t) ==
    LET m1 == get_chat_model(m, server, channel, t)
        m2 == [m1 EXCEPT !.chat_models[server][channel] =
                  IF channel = m1.active_channel THEN force_data_changed(@, t)
                  ELSE update_messages_if_needed(@)]
    IN IF channel = m1.active_channel
       THEN Emit(m2, <<"messagesUpdated", server, channel>>) ELSE m2

\* refresh_chat from its call to its return.  polled: process_once was called.
refresh_chat(m, cl, server, channel, readable, t1, t2) ==
    IF ~RefreshMayEnter
    THEN [m |-> m, ret |-> "False", polled |-> FALSE]
    ELSE IF server = "" \/ channel = "" \/ ~Registered(cl, server)
    THEN [m |-> m, ret |-> "False", polled |-> FALSE]
    ELSE [m |-> RefreshBody(process_once(m, cl, readable, server, t1, t2),
                            server, channel, t2),
          ret |-> "True", polled |-> TRUE]

\* lines 353-365 and the finally clause
RefreshFinish(E, D) ==
    /\ frames # <<>> /\ Top.kind = "refresh"
    /\ LET server == Top.server
           channel == Top.channel
           polled == ProcessOnceResult(clients, server)
       IN \E readable \in Readable(E), t1, t2 \in StartTime..MaxClock :
            /\ ClockReads(t1, t2, D)
            /\ ~polled => readable = <<>>
            /\ Commit(RefreshBody(process_once(Store, clients, readable, server, t1, t2),
                                  server, channel, t2))
    /\ frames' = Pop(frames)
    /\ updating' = Release(TRUE)
    /\ UNCHANGED <<clients, last_update_time, drains>>

\* ------------------------------------------------------------- environment steps
\* the connection drops: the library closes and forgets the socket
ConnectionLost(server) ==
    /\ Registered(clients, server) /\ ClientOf(clients, server).socket = "open"
    /\ clients' = [i \in 1..Len(clients) |->
                      IF clients[i].server = server
                      THEN [clients[i] EXCEPT !.socket = "closed"] ELSE clients[i]]
    /\ Commit(Store)
    /\ UNCHANGED <<sched, now>>

\* the clock advances between two handlers (not a step of Spec, which runs at
\* one instant)
AdvanceTime ==
    /\ now < MaxClock
    /\ now' = now + 1
    /\ Commit(Store)
    /\ UNCHANGED <<clients, sched>>

\* ------------------------------------------------------------ specifications
\* Spec: the owner context over the chat store, at one instant of the clock
\* (timestamps all equal, no timer comes due).  One server accepts connections;
\* the other is known to the user interface only.
Reachable == {"s1"}
StoreEvents == {e \in InboundEvents : ~(e.type = "part" /\ e.nick = OwnNick)}
\* the targets the user interface passes to the slots for server s
TargetsOf(s) == GroupChannels \cup {s, ""}

Next ==
    \/ Idle /\ \E s \in ArgServers, ok \in BOOLEAN :
                  ConnectToServer(s, ok /\ s \in Reachable)
    \/ Idle /\ \E s \in ArgServers : DisconnectFromServer(s)
    \/ Idle /\ \E s \in ArgServers : \E c \in TargetsOf(s) : JoinChannel(s, c)
    \/ Idle /\ \E s \in ArgServers : \E c \in TargetsOf(s) : LeaveChannel(s, c)
    \/ Idle /\ \E s \in ArgServers, x \in Texts \cup {<<>>} :
                  \E c \in TargetsOf(s) : SendMessage(s, c, x, {0})
    \/ Idle /\ \E s \in ArgServers : \E c \in TargetsOf(s) : SetActiveChat(s, c)
    \/ Idle /\ \E s \in ArgServers : \E c \in TargetsOf(s) : ActivateChannel(s, c)
    \/ Idle /\ \E s \in Servers : \E c \in TargetsOf(s) \ {""} : GetChatModel(s, c)
    \/ CheckForNewMessages
    \/ TickServer(StoreEvents, {0})
    \/ TickEnd
    \/ \E s \in ArgServers : \E c \in TargetsOf(s) : RefreshChat(s, c)
    \/ RefreshFinish(StoreEvents, {0})
    \/ FrameRaises
    \/ Idle /\ \E s \in Servers : ConnectionLost(s)

Spec == Init /\ [][Next]_vars

\* SpecSched: the scheduler over time.  Both servers accept connections, the
\* clock advances between and during the activations, a drain may deliver the
\* welcome of the server, and an observer of a signal may call the disconnect
\* slot while a tick or a refresh is in flight.
SchedEvents == {Event("welcome", "", "", <<>>)}

NextSched ==
    \/ Idle /\ \E s \in Servers : ConnectToServer(s, TRUE)
    \/ \E s \in Servers : DisconnectFromServer(s)
    \/ CheckForNewMessages
    \/ TickServer(SchedEvents, {0, 1})
    \/ TickEnd
    \/ \E s \in Servers : RefreshChat(s, s)
    \/ RefreshFinish(SchedEvents, {0, 1})
    \/ FrameRaises
    \/ ReactorLoop
    \/ Idle /\ \E s \in Servers : ConnectionLost(s)
    \/ AdvanceTime

SpecSched == Init /\ [][NextSched]_vars

\* SpecReactor: the sessions and the reactor thread.  Sessions are connected
\* and disconnected and lose their connections, the reactor is stopped (its
\* thread ending within the wait or not), the thread runs its loop, whatever
\* the ticks of the owner thread are doing, and the clock advances.
NextReactor ==
    \/ Idle /\ \E s \in Servers : ConnectToServer(s, TRUE)
    \/ \E s \in Servers : DisconnectFromServer(s)
    \/ Idle /\ \E s \in Servers : ConnectionLost(s)
    \/ StopReactor
    \/ ReactorLoop
    \/ CheckForNewMessages
    \/ TickServer(SchedEvents, {0})
    \/ TickEnd
    \/ Idle /\ AdvanceTime

SpecReactor == Init /\ [][NextReactor]_vars /\ WF_vars(ReactorLoop)

\* SpecLive: sessions come and go, sockets close, the servers send or do not,
\* the clock advances between the handlers, and the update timer keeps
\* firing: the Qt event loop runs its slot whenever no other handler is
\* running, and a tick that has begun runs on to its end (weak fairness).
NextLive ==
    \/ Idle /\ \E s \in Servers : ConnectToServer(s, TRUE)
    \/ Idle /\ \E s \in Servers : DisconnectFromServer(s)
    \/ CheckForNewMessages
    \/ TickServer(SchedEvents, {0})
    \/ TickEnd
    \/ Idle /\ \E s \in Servers : ConnectionLost(s)
    \/ Idle /\ AdvanceTime

SpecLive ==
    /\ Init /\ [][NextLive]_vars
    /\ WF_vars(CheckForNewMessages)
    /\ WF_vars(TickServer(SchedEvents, {0}))
    /\ WF_vars(TickEnd)

\* SpecGrace: one session and its channel "#a".  The user joins and leaves
\* and activates chats of either server,
\* the server reports the joins and parts of the own nickname and a message
\* of a peer (read by a forced refresh of the server's chat), the clock
\* advances and the single-shot timers fire once due.
InitGrace ==
    /\ chats = <<>> /\ chat_models = <<>>
    /\ active_server = None /\ active_channel = None
    /\ clients = <<>> /\ updating = FALSE /\ last_update_time = <<>>
    /\ frames = <<>> /\ timers = <<>> /\ drains = <<>> /\ reactor = NewReactor
    /\ msg_limit = MaxGraceMsgs
    /\ db = NewDatabase(FALSE)
    /\ ledger = NewLedger
    /\ now = StartTime

GraceEvents ==
    {Event(k, ch, OwnNick, <<>>) : k \in {"join", "part"}, ch \in GroupChannels}
    \cup {Event("pubmsg", ch, n, x) : ch \in GroupChannels, n \in PeerNicks, x \in Texts}

NextGrace ==
    \/ Idle /\ ConnectToServer("s1", TRUE)
    \/ Idle /\ \E c \in GroupChannels : JoinChannel("s1", c)
    \/ Idle /\ \E c \in GroupChannels : LeaveChannel("s1", c)
    \/ Idle /\ \E s \in Servers : \E c \in GroupChannels \cup {s, ""} : SetActiveChat(s, c)
    \/ RefreshChat("s1", "s1")
    \/ RefreshFinish(GraceEvents, {0})
    \/ Idle /\ \E i \in 1..MaxTimers : TimerFire(i)
    \/ Idle /\ AdvanceTime

SpecGrace == InitGrace /\ [][NextGrace]_vars

\* SpecDb: every sequence of calls that save and delete servers and channels,
\* on a build that enforces foreign keys and on one that does not.
app == <<chats, chat_models, active_server, active_channel, clients,
         updating, last_update_time, frames, timers, drains, reactor, msg_limit>>

InitDb ==
    /\ chats = <<>> /\ chat_models = <<>>
    /\ active_server = None /\ active_channel = None
    /\ clients = <<>> /\ updating = FALSE /\ last_update_time = <<>>
    /\ frames = <<>> /\ timers = <<>> /\ drains = <<>> /\ reactor = NewReactor
    /\ msg_limit = MaxMsgs
    /\ \E foreign_keys \in BOOLEAN : db = NewDatabase(foreign_keys)
    /\ ledger = NewLedger
    /\ now = StartTime

\* the arguments of save_server the callers pass
Profile(port, nickname, username, realname) ==
    [port |-> port, nickname |-> nickname, username |-> username, realname |-> realname]
DefaultPort == 6667
Profiles == {Profile(DefaultPort, "me", "me", "me"),
             Profile(DefaultPort + 30, "nick", "user", "Real")}

SaveServer(server_name, p) ==
    LET r == save_server(db, server_name, p.port, p.nickname, p.username, p.realname, now)
    IN /\ r.db.seq_servers <= MaxRowId
       /\ db' = r.db
       /\ ledger' = [ledger EXCEPT
                        !.servers = DictPut(@, server_name, p),
                        !.channels = IF server_name \in DOMAIN @ THEN @
                                     ELSE DictPut(@, server_name, <<>>)]
       /\ UNCHANGED <<app, now>>

DeleteServer(server_name) ==
    /\ db' = delete_server(db, server_name).db
    /\ ledger' = [ledger EXCEPT !.servers = DictDel(@, server_name),
                                !.channels = DictDel(@, server_name)]
    /\ UNCHANGED <<app, now>>

Flags(is_private, auto_join) == [is_private |-> is_private, auto_join |-> auto_join]

\* the defaults of save_channel, and a private chat that is not joined again
ChannelFlags == {Flags(FALSE, TRUE), Flags(TRUE, FALSE)}

SaveChannel(server_name, channel_name, is_private, auto_join) ==
    LET r == save_channel(db, server_name, channel_name, is_private, auto_join)
    IN /\ r.db.seq_channels <= MaxRowId
       /\ db' = r.db
       /\ ledger' = IF server_name \in DOMAIN ledger.servers
                    THEN [ledger EXCEPT !.channels[server_name] =
                             DictPut(@, channel_name, Flags(is_private, auto_join))]
                    ELSE ledger
       /\ UNCHANGED <<app, now>>

DeleteChannel(server_name, channel_name) ==
    /\ db' = delete_channel(db, server_name, channel_name).db
    /\ ledger' = IF server_name \in DOMAIN ledger.servers
                 THEN [ledger EXCEPT !.channels[server_name] = DictDel(@, channel_name)]
                 ELSE ledger
    /\ UNCHANGED <<app, now>>

NextDb ==
    \/ \E s \in Servers, p \in Profiles : SaveServer(s, p)
    \/ \E s \in Servers : DeleteServer(s)
    \/ \E s \in Servers, c \in Channels, f \in ChannelFlags :
          SaveChannel(s, c, f.is_private, f.auto_join)
    \/ \E s \in Servers, c \in Channels : DeleteChannel(s, c)

SpecDb == InitDb /\ [][NextDb]_vars

\* SpecSettings: every sequence of calls that save settings and the profile
SettingKeys == {"theme", "nickname", "username", "realname"}
SettingValues == {"dark", "Nick", ""}
NameArgs == {"Nick", "User", "", None}

SaveUserSetting(key, value) ==
    /\ db' = save_user_setting(db, key, value).db
    /\ ledger' = [ledger EXCEPT !.settings = DictPut(@, key, value)]
    /\ UNCHANGED <<app, now>>

SaveUserProfile(nickname, username, realname) ==
    /\ db' = save_user_profile(db, nickname, username, realname).db
    /\ ledger' = [ledger EXCEPT !.settings =
                     DictPut(DictPut(DictPut(@,
                         "nickname", nickname),
                         "username", IF username \in {"", None} THEN nickname ELSE username),
                         "realname", IF realname \in {"", None} THEN nickname ELSE realname)]
    /\ UNCHANGED <<app, now>>

NextSettings ==
    \/ \E key \in SettingKeys, value \in SettingValues : SaveUserSetting(key, value)
    \/ \E n \in NameArgs \ {"", None}, u, r \in NameArgs : SaveUserProfile(n, u, r)

SpecSettings == InitDb /\ [][NextSettings]_vars

\* ------------------------------------------------------------------ properties
\* vocabulary of the properties
CountChats(cs, server, name) ==
    Cardinality({i \in 1..Len(cs) : Matches(cs[i], server, name)})

\* the unread count of the chat (server, name): over all the list entries it has
RECURSIVE UnreadOf(_, _, _)
UnreadOf(cs, server, name) ==
    IF cs = <<>> THEN 0
    ELSE (IF Matches(cs[1], server, name) THEN cs[1].unread_count ELSE 0)
         + UnreadOf(Tail(cs), server, name)

\* the chat identities of server s
IdentitiesOf(s) == GroupChannels \cup PeerNicks \cup {s}

Senders == PeerNicks \cup {OwnNick}

\* C1: the chat list holds at most one entry per (server, target), the
\* server's own entry (target = server) included, in every reachable state.
C1_OneEntryPerIdentity ==
    \A s \in Servers : \A c \in IdentitiesOf(s) : CountChats(chats, s, c) <= 1

\* C2: add_channel called twice with the same identity leaves exactly one
\* entry of that identity, and the second call changes neither the list
\* (unread counts, previews) nor the chat's history.
C2_AddChannelTwice ==
    \A s \in Servers : \A c \in IdentitiesOf(s), p \in BOOLEAN :
        LET first == add_channel(Store, s, c, p, now).m
            second == add_channel(first, s, c, p, now).m
        IN /\ CountChats(second.chats, s, c) = 1
           /\ second.chats = first.chats
           /\ second.chat_models = first.chat_models

C4_ActiveChatHasNoUnread ==
    /\ \A i \in 1..Len(chats) :
          /\ chats[i].unread_count >= 0
          /\ IsActive(Store, chats[i].server, chats[i].name) => chats[i].unread_count = 0
    /\ \A s \in Servers : \A c \in IdentitiesOf(s), n \in Senders, x \in Texts :
          IsActive(Store, s, c) =>
              /\ UnreadOf(on_message_received(Store, s, c, n, x, now, now).chats, s, c) = 0
              /\ UnreadOf(add_message_to_chat(Store, s, c, n, x, now, now).m.chats, s, c) = 0

\* the active chat is listed and holds a received message
C4_Witness ==
    \E i \in 1..Len(chats) :
        LET s == chats[i].server
            c == chats[i].name
        IN /\ IsActive(Store, s, c)
           /\ HasModel(chat_models, s, c)
           /\ \E k \in 1..Len(chat_models[s][c].messages) :
                  ~chat_models[s][c].messages[k].is_system

\* C5: update_messages_if_needed returns false when nothing was appended since
\* the previous check, and true once a message was appended at a time strictly
\* after the last-update time that check recorded.
C5_AppendMakesTheCheckTrue ==
    \A k \in ModelKeys(chat_models), n \in Senders, x \in Texts :
        LET checked == update_messages_if_needed(chat_models[k[1]][k[2]])
            later == checked.last_update_timestamp + 1
        IN /\ ~NeedsUpdate(checked)
           /\ NeedsUpdate(add_message(checked, n, x, FALSE, later, later))

\* the entries of cs, in order, without those of `server` (whole_server) or
\* without those of the chat (server, name)
RECURSIVE Others(_, _, _, _)
Others(cs, server, name, whole_server) ==
    IF cs = <<>> THEN <<>>
    ELSE IF cs[1].server = server /\ (whole_server \/ cs[1].name = name)
         THEN Others(Tail(cs), server, name, whole_server)
         ELSE <<cs[1]>> \o Others(Tail(cs), server, name, whole_server)

ActiveCleared(m) == m.active_server = None /\ m.active_channel = None
ActiveKept(m) == m.active_server = active_server /\ m.active_channel = active_channel
ClearedSignal == <<"activeChannelChanged", "", "">>

\* C6: remove_server(s) removes every chat of s and remove_channel(s, c) removes
\* the chat (s, c); the active pointer is emptied, with exactly one
\* activeChannelChanged("", ""), iff the active chat was among the removed
\* chats; the chats of other identities and an active chat elsewhere stay.
C6_RemovalClearsTheActiveChat ==
    /\ \A s \in Servers :
          LET r == remove_server(Store, s) IN
          /\ \A i \in 1..Len(r.m.chats) : r.m.chats[i].server # s
          /\ r.m.chats = Others(chats, s, s, TRUE)
          /\ IF r.ret /\ active_server = s
             THEN ActiveCleared(r.m) /\ r.m.sig = <<ClearedSignal>>
             ELSE ActiveKept(r.m) /\ r.m.sig = <<>>
    /\ \A s \in Servers : \A c \in IdentitiesOf(s) :
          LET r == remove_channel(Store, s, c) IN
          /\ ~HasChat(r.m.chats, s, c)
          /\ r.m.chats = Others(chats, s, c, FALSE)
          /\ IF r.ret /\ IsActive(Store, s, c)
             THEN ActiveCleared(r.m) /\ r.m.sig = <<ClearedSignal>>
             ELSE ActiveKept(r.m) /\ r.m.sig = <<>>

\* C7: set_active_chat(server, channel) emits activeChannelChanged(server,
\* channel), once, iff the pair differs from the pair that was active before
\* the call; a call it rejects changes nothing and emits nothing.
C7_NotifiesIffThePairChanges ==
    \A s \in ArgServers : \A c \in IdentitiesOf(s) \cup {""} :
        LET r == set_active_chat(Store, s, c, now) IN
        IF r.ret
        THEN /\ r.m.active_server = s /\ r.m.active_channel = c
             /\ r.m.sig = IF <<s, c>> # <<active_server, active_channel>>
                          THEN << <<"activeChannelChanged", s, c>> >>
                          ELSE <<>>
        ELSE r.m = Store

\* a listed chat is active: activating it again is silent, activating the
\* server's other chat notifies
C7_Witness ==
    /\ active_server \in Servers
    /\ active_channel \in GroupChannels
    /\ HasChat(chats, active_server, active_channel)
    /\ set_active_chat(Store, active_server, active_channel, now).m.sig = <<>>
    /\ set_active_chat(Store, active_server, active_server, now).m.sig # <<>>

\* C8: after set_active_chat(server, target) returned success the chat
\* (server, target) exists exactly once, with a history; the history of a chat
\* that existed before the call is unchanged.
C8_ActivationLeavesOneChat ==
    \A s \in Servers : \A c \in IdentitiesOf(s) :
        LET r == set_active_chat(Store, s, c, now) IN
        r.ret =>
            /\ CountChats(r.m.chats, s, c) = 1
            /\ HasModel(r.m.chat_models, s, c)
            /\ (HasChat(chats, s, c) /\ HasModel(chat_models, s, c)) =>
                   r.m.chat_models[s][c].messages = chat_models[s][c].messages

\* the chat identity a message event of the connection is about
EventIdentity(ev) == IF ev.type = "privmsg" THEN ev.nick ELSE ev.target

\* C9: after a message event of a connected server for an identity the store
\* does not hold, the store holds exactly one chat of that identity, a list
\* entry and a history, and the history holds the message.
C9_MessageCreatesTheChat ==
    \A s \in Servers :
        ProcessOnceResult(clients, s) =>
            \A ev \in {e \in InboundEvents : e.type \in {"pubmsg", "privmsg"}} :
                LET c == EventIdentity(ev)
                    m1 == Dispatch(Store, s, ClientOf(clients, s).nickname, ev, now, now)
                IN (~HasChat(chats, s, c) /\ ~HasModel(chat_models, s, c)) =>
                       /\ CountChats(m1.chats, s, c) = 1
                       /\ HasModel(m1.chat_models, s, c)
                       /\ \E k \in 1..Len(m1.chat_models[s][c].messages) :
                              LET msg == m1.chat_models[s][c].messages[k]
                              IN msg.content = ev.text /\ msg.sender = ev.nick

\* C10: at most one activation of the tick or of refresh_chat is in flight, and
\* _updating is set exactly while one is: a tick or refresh that begins
\* meanwhile neither starts a second activation nor clears the flag.
C10_OneActivationInFlight ==
    /\ Len(frames) <= 1
    /\ updating <=> frames # <<>>

\* a tick is in flight with a server still to poll
C10_Witness ==
    /\ updating
    /\ Len(frames) = 1
    /\ Top.kind = "tick"
    /\ Top.servers # <<>>

\* ------------------------------------------------------ the session registry
Emitted(m, signal) == \E i \in 1..Len(m.sig) : m.sig[i] = signal

\* the welcome of `server` was observed: on_welcome ran, _on_server_connected
\* reported the connection
WelcomeObserved(m, server) == Emitted(m, <<"connectionStatusChanged", server, "True">>)

SessionsOf(cl, server) == Cardinality({i \in 1..Len(cl) : cl[i].server = server})

\* C14: connect returns success, and the session is in the registry, only
\* after the welcome of the server was observed.
C14_SuccessOnlyAfterWelcome ==
    \A s \in Servers, outcome \in ConnectOutcomes :
        LET r == connect_to_server(Store, clients, s, SocketConnects(outcome))
        IN r.ret = "True" \/ (Registered(r.clients, s) /\ ~Registered(clients, s))
              => WelcomeObserved(r.m, s)

\* C15: a connect that fails, the address being unreachable or the handshake
\* failing, returns the failure and surfaces an error; the registry does not
\* hold the server afterwards and the store gained no chat.
C15_FailedConnectLeavesNothing ==
    \A s \in Servers, outcome \in ConnectOutcomes \ {"welcome"} :
        ~Registered(clients, s) =>
            LET r == connect_to_server(Store, clients, s, SocketConnects(outcome))
            IN /\ r.ret = "False"
               /\ Emitted(r.m, <<"errorOccurred", "Failed to connect to server", s>>)
               /\ ~Registered(r.clients, s)
               /\ r.m.chats = chats

\* C16: connect for a server the registry holds fails and leaves the registry
\* as it is; the registry never holds two sessions of one server.
C16_OneSessionPerServer ==
    /\ \A s \in Servers : SessionsOf(clients, s) <= 1
    /\ \A s \in Servers, outcome \in ConnectOutcomes :
          Registered(clients, s) =>
              LET r == connect_to_server(Store, clients, s, SocketConnects(outcome))
              IN r.ret = "False" /\ r.clients = clients

C16_Witness ==
    /\ Registered(clients, "s1")
    /\ connect_to_server(Store, clients, "s1", TRUE).ret = "False"
    /\ Len(chats) > 1

CountEmitted(m, signal) == Cardinality({i \in 1..Len(m.sig) : m.sig[i] = signal})

\* the slot left the registry and the store as they were (signals apart)
NothingChanged(r) == r.clients = clients /\ [r.m EXCEPT !.sig = <<>>] = Store

\* the messages of chat (server, channel), none when it has no history
History(cms, server, channel) ==
    IF HasModel(cms, server, channel) THEN cms[server][channel].messages ELSE <<>>

\* C17: disconnect of a registered session ends with the session out of the
\* registry and exactly one Disconnected event for the server, whether the
\* connection could still carry the quit notification or not.
C17_DisconnectAlwaysTearsDown ==
    \A s \in Servers :
        Registered(clients, s) =>
            LET r == disconnect_from_server(Store, clients, s)
            IN /\ ~Registered(r.clients, s)
               /\ \A o \in Servers \ {s} : Registered(r.clients, o) = Registered(clients, o)
               /\ CountEmitted(r.m, <<"connectionStatusChanged", s, "False">>) = 1

\* a session whose connection cannot carry the quit notification is disconnected
C17_Witness ==
    /\ Registered(clients, "s1") /\ ~SocketUsable(clients, "s1")
    /\ ~Registered(disconnect_from_server(Store, clients, "s1").clients, "s1")

\* C18: join or send for a server the registry does not hold returns a
\* failure and changes neither the registry nor the store nor the active chat.
C18_UnregisteredCommandsChangeNothing ==
    \A s \in Servers, x \in Texts, write_ok \in BOOLEAN : \A c \in IdentitiesOf(s) :
        ~Registered(clients, s) =>
            LET j == join_channel(Store, clients, s, c)
                r == send_message(Store, clients, s, c, x, write_ok, now, now)
            IN /\ j.ret = "False" /\ NothingChanged(j)
               /\ r.ret = "False" /\ NothingChanged(r) /\ ~r.wire

\* a chat of a server without session: the send reaches the registry lookup
C18_Witness ==
    /\ ~Registered(clients, "s1") /\ HasChat(chats, "s1", "#a")
    /\ send_message(Store, clients, "s1", "#a", <<"hi">>, TRUE, now, now).ret = "False"
    /\ join_channel(Store, clients, "s1", "#a").ret = "False"

\* C19: a send whose target is the server itself fails, hands nothing to the
\* connection and appends nothing; the store is unchanged.
C19_ServerIsNoTarget ==
    \A s \in Servers, x \in Texts, write_ok \in BOOLEAN :
        LET r == send_message(Store, clients, s, s, x, write_ok, now, now)
        IN r.ret = "False" /\ ~r.wire /\ NothingChanged(r)

C19_Witness ==
    /\ Registered(clients, "s1") /\ SocketUsable(clients, "s1")
    /\ HasChat(chats, "s1", "s1")
    /\ send_message(Store, clients, "s1", "s1", <<"hi">>, TRUE, now, now).ret = "False"

\* C20: a successful send appends exactly one message, from the session's own
\* nickname with the text sent, to the chat it names; a send whose socket
\* write fails returns failure and appends nothing.
C20_SendAppendsOnceOrFails ==
    \A s \in Servers, x \in Texts, write_ok \in BOOLEAN : \A c \in IdentitiesOf(s) \ {s} :
        Registered(clients, s) /\ HasChat(chats, s, c) =>
            LET r == send_message(Store, clients, s, c, x, write_ok, now, now)
                before == History(chat_models, s, c)
                after == History(r.m.chat_models, s, c)
            IN /\ r.ret = "True" =>
                     after = Append(before, Message(ClientOf(clients, s).nickname,
                                                    x, now, FALSE))
               /\ ~SocketUsable(clients, s) \/ ~write_ok =>
                     r.ret = "False" /\ after = before

\* ------------------------------------------------------------- the update tick
\* C12: a tick that skips the drain of a server because the minimum interval
\* has not elapsed still reconciles the active chat of that server.
C12_SkippedDrainStillReconciles ==
    \A s \in Servers :
        /\ Registered(clients, s) /\ SocketUsable(clients, s)
        /\ active_server = s /\ HasModel(chat_models, s, active_channel)
        /\ TooSoon(now, DictGet(last_update_time, s, 0))
        => tick_server(Store, clients, last_update_time, s, now, <<>>, now, now).reconciled

\* C13: refresh_chat on a registered server polls it however recent the last
\* drain of the scheduler; while a tick or a refresh is in flight it polls
\* nothing and returns false.
C13_RefreshBypassesTheLimiterOnly ==
    \A s \in Servers, readable \in Readable(StoreEvents) : \A c \in IdentitiesOf(s) :
        LET r == refresh_chat(Store, clients, s, c, readable, now, now)
        IN /\ updating => r.ret = "False" /\ ~r.polled /\ r.m = Store
           /\ ~updating /\ Registered(clients, s) => r.ret = "True" /\ r.polled

\* a refresh of a server the scheduler drained less than the interval ago
C13_Witness ==
    /\ ~updating /\ Registered(clients, "s1")
    /\ TooSoon(now, DictGet(last_update_time, "s1", 0))
    /\ refresh_chat(Store, clients, "s1", "#a", <<>>, now, now).polled

Positions(list, field, value) == {i \in 1..Len(list) : list[i][field] = value}

\* C21: get_all_servers returns exactly one record per server name saved and
\* not deleted since, with the port, nickname, username and realname of the
\* latest save of that name.
C21_ServersAreTheSavedOnes ==
    LET list == get_all_servers(db) IN
    /\ \A i \in 1..Len(list) : list[i].server \in DOMAIN ledger.servers
    /\ \A name \in DOMAIN ledger.servers :
          /\ Cardinality(Positions(list, "server", name)) = 1
          /\ \A i \in Positions(list, "server", name) :
                Profile(list[i].port, list[i].nickname, list[i].username,
                        list[i].realname) = ledger.servers[name]

\* a server saved, deleted, saved again and saved once more with other arguments
C21_Witness ==
    /\ DOMAIN ledger.servers = {"s1"}
    /\ db.seq_servers = 2
    /\ ledger.servers["s1"].nickname = "nick"
    /\ Len(get_all_servers(db)) = 1

\* C22: save_channel succeeds exactly when its server is saved, and stores
\* nothing otherwise; get_channels_for_server returns one record per channel
\* saved under the saved server and not deleted, with the flags of its latest
\* save; after delete_server there is none, also once the server is saved again.
C22_ChannelsOfTheSavedServer ==
    /\ \A s \in Servers, c \in Channels, f \in ChannelFlags :
          LET r == save_channel(db, s, c, f.is_private, f.auto_join)
          IN /\ r.ret = (s \in DOMAIN ledger.servers)
             /\ ~r.ret => r.db = db
    /\ \A s \in Servers :
          LET list == get_channels_for_server(db, s)
              saved == DictGet(ledger.channels, s, <<>>)
          IN /\ \A i \in 1..Len(list) : list[i].name \in DOMAIN saved
             /\ \A c \in DOMAIN saved :
                   /\ Cardinality(Positions(list, "name", c)) = 1
                   /\ \A i \in Positions(list, "name", c) :
                         Flags(list[i].is_private, list[i].auto_join) = saved[c]

\* the server was deleted on a build without foreign keys and saved again: the
\* rows of its channels are still in the table
C22_Witness ==
    /\ ~db.foreign_keys
    /\ HasServerRow(db, "s1")
    /\ \E c \in db.channels : \A r \in db.servers : r.id # c.server_id
    /\ get_channels_for_server(db, "s1") = <<>>
    /\ save_channel(db, "s2", "#a", FALSE, TRUE).ret = FALSE

\* C23: get_user_setting returns the value of the latest save of the key, or
\* the default when the key was never saved; get_user_profile right after
\* save_user_profile(n, u, r) returns n, u and r, an empty u or r being n.
C23_SettingsReadBackTheLatestSave ==
    /\ \A key \in SettingKeys \cup {"lang"}, default_value \in {None, "en"} :
          get_user_setting(db, key, default_value)
              = DictGet(ledger.settings, key, default_value)
    /\ \A n \in NameArgs \ {"", None}, u, r \in NameArgs :
          get_user_profile(save_user_profile(db, n, u, r).db, "TesseractIRC_1")
              = [nickname |-> n,
                 username |-> IF u \in {"", None} THEN n ELSE u,
                 realname |-> IF r \in {"", None} THEN n ELSE r]

\* a stored profile whose username was given empty, and a saved theme
C23_Witness ==
    /\ "theme" \in DOMAIN db.user_settings
    /\ DictGet(db.user_settings, "nickname", None) = "User"
    /\ DictGet(db.user_settings, "username", None) = "User"
    /\ DictGet(db.user_settings, "realname", None) = "Nick"
    /\ get_user_setting(db, "lang", "en") = "en"

\* --------------------------------------------------------- drain and reconcile
\* the notifications of kind messagesUpdated a handler emitted
UpdatesEmitted(m) ==
    {<<m.sig[i][2], m.sig[i][3]>> : i \in {j \in 1..Len(m.sig) : m.sig[j][1] = "messagesUpdated"}}

Silent(m) == [m EXCEPT !.sig = <<>>]

\* C24: when a message was appended to the active chat since the previous
\* tick, the next tick that drains the server of the active chat notifies
\* messagesUpdated for the active chat; the reconciliation of a tick never
\* notifies for a chat that is not active.
C24_TickNotifiesTheActiveChat ==
    \A s \in Servers, n \in Senders, x \in Texts :
        /\ Registered(clients, s) /\ SocketUsable(clients, s)
        /\ active_server = s /\ HasModel(chat_models, s, active_channel)
        /\ ~TooSoon(now, DictGet(last_update_time, s, 0))
        => LET appended == Silent(on_message_received(Store, s, active_channel,
                                                      n, x, now, now))
               r == tick_server(appended, clients, last_update_time, s, now,
                                <<>>, now, now)
           IN /\ r.reconciled
              /\ <<s, active_channel>> \in UpdatesEmitted(r.m)
              /\ UpdatesEmitted(r.m) \subseteq {<<s, active_channel>>}

\* C25: within a tick the drain step, process_once for a server, leaves the
\* chat store unchanged.
C25_DrainLeavesTheStore ==
    \A s \in Servers, readable \in Readable(StoreEvents) :
        ProcessOnceResult(clients, s) =>
            Silent(process_once(Store, clients, readable, s, now, now)) = Store

\* ------------------------------------------------------ the guard's release

\* C26: every tick or refresh that took the guard has given it back when it
\* ends, whether it ran to its end, returned early or raised: whenever no
\* activation is in flight the guard is free, so the next tick and the next
\* refresh enter.
C26_GuardReleasedAtEveryEnd ==
    Idle => TickMayEnter /\ RefreshMayEnter

\* a tick has drained the first session and ended with the second one, which
\* is registered, never drained, and the guard is free again
C26_Witness ==
    /\ Idle
    /\ ~updating
    /\ Registered(clients, "s1")
    /\ Registered(clients, "s2")
    /\ "s1" \in DOMAIN drains
    /\ "s2" \notin DOMAIN drains

\* ------------------------------------------------- joins and parts of others

\* C27: a JOIN or PART read from a session whose acting nickname is not the
\* session's own reaches no handler: the store is the same after the read and
\* no signal was emitted.  A JOIN by the own nickname is handed to the
\* channel-joined handler, a PART by the own nickname to the channel-left one.
C27_OnlyOwnJoinsAndPartsSurface ==
    \A s \in Servers : Registered(clients, s) /\ SocketUsable(clients, s) =>
        \A ev \in InboundEvents : ev.type \in {"join", "part"} =>
            LET nickname == ClientOf(clients, s).nickname
                after == process_once(Store, clients, <<ev>>, s, now, now)
            IN  /\ ev.nick # nickname => after = Store
                /\ ev.nick = nickname /\ ev.type = "join" =>
                       /\ after = on_channel_joined(Store, s, ev.target, now, now)
                       /\ Emitted(after, <<"channelJoined", s, ev.target>>)
                /\ ev.nick = nickname /\ ev.type = "part" =>
                       after = on_channel_left(Store, s, ev.target, now, now)

\* a session is up whose nickname is not the peer's, and the channel the
\* peer joins or leaves is among its chats
C27_Witness ==
    /\ Registered(clients, "s1")
    /\ SocketUsable(clients, "s1")
    /\ ClientOf(clients, "s1").nickname \notin PeerNicks
    /\ CountChats(chats, "s1", "#a") = 1

\* ------------------------------------------------ polling a torn-down session

\* C28: process_once for a server that is not in the registry, or whose socket
\* is closed, returns False and leaves the store as it is whatever the peer
\* had sent, also when the session was torn down while the tick that polls it
\* was in flight.
C28_PollingATornDownSessionIsANoOp ==
    \A s \in Servers : ~Registered(clients, s) \/ ~SocketUsable(clients, s) =>
        /\ ~ProcessOnceResult(clients, s)
        /\ \A readable \in Readable(InboundEvents) :
               process_once(Store, clients, readable, s, now, now) = Store

\* a tick is in flight and the session it polls next has been disconnected
\* since the tick listed it
C28_Witness ==
    /\ frames # <<>>
    /\ Top.kind = "tick"
    /\ Top.servers # <<>>
    /\ ~Registered(clients, Head(Top.servers))

\* C29: process_once returns True exactly when the read delivered data: for a
\* registered session with a valid socket it returns False when nothing was
\* readable within the wait.
C29_TrueOnlyWhenDataWasRead ==
    \A s \in Servers : Registered(clients, s) /\ SocketUsable(clients, s) =>
        \A readable \in Readable(InboundEvents) :
            ProcessOnceResult(clients, s) <=> readable # <<>>

\* ------------------------------------------------------- the reactor context

\* C30: the store is never changed in the reactor context.  An iteration of
\* the reactor loop leaves the store as it is; a signal a session's callback
\* emits in the reactor thread runs no handler there and is posted to the
\* owner; a signal emitted in the owner thread (inside a drain) is handled in
\* the owner thread, within that call.
C30_NoMutationInTheReactorContext ==
    /\ \A ev \in InboundEvents :
           reactor_process_once(Store, clients, ev, now, now) = Store
    /\ \A s \in Servers : Registered(clients, s) =>
           \A ev \in InboundEvents :
               LET nickname == ClientOf(clients, s).nickname
                   there == Deliver(Store, "reactor", s, nickname, ev, now, now)
                   here == Deliver(Store, "owner", s, nickname, ev, now, now)
               IN  /\ there.m = Store
                   /\ there.ran_in # "reactor"
                   /\ there.posted = <<ev>>
                   /\ here.m = Dispatch(Store, s, nickname, ev, now, now)
                   /\ here.ran_in = "owner"
                   /\ here.posted = <<>>

\* the reactor thread is running while a tick of the owner is in flight with
\* a live session to drain
C30_Witness ==
    /\ reactor.running
    /\ reactor.thread = "alive"
    /\ frames # <<>>
    /\ Top.kind = "tick"
    /\ Top.servers # <<>>
    /\ Registered(clients, Head(Top.servers))
    /\ SocketUsable(clients, Head(Top.servers))

\* ------------------------------------------------------------ poll failures

\* C31: a poll that fails on one session ends neither the tick nor the
\* session.  A tick that has come to the end of its list has visited every
\* registered server (each was polled by it or had been polled less than
\* the minimum interval before), whatever the polls of the others returned,
\* and no step of a tick changes which servers are registered.
C31_FailedPollStopsNothing ==
    /\ [](frames # <<>> /\ Top.kind = "tick" /\ Top.servers = <<>> =>
             \A s \in Servers : Registered(clients, s) =>
                 TooSoon(Top.time, DictGet(last_update_time, s, 0)))
    /\ [][frames # <<>> /\ Top.kind = "tick" /\ frames' # frames =>
             get_servers(clients') = get_servers(clients)]_vars

\* a tick has come to its end: the poll of the first session failed on its
\* closed socket, the session is still registered, and the second session
\* was polled by the same tick
C31_Witness ==
    /\ frames # <<>> /\ Top.kind = "tick" /\ Top.servers = <<>>
    /\ get_servers(clients) = <<"s1", "s2">>
    /\ ~SocketUsable(clients, "s1")
    /\ SocketUsable(clients, "s2")
    /\ "s2" \in DOMAIN drains
    /\ drains["s2"][Len(drains["s2"])] = Top.time
    /\ "s1" \in DOMAIN drains
    /\ drains["s1"][Len(drains["s1"])] = Top.time

\* ------------------------------------------------------------ the grace delay

\* the timer the handler of a part sets for (server, channel) at time t
GraceTimer(server, channel, t) ==
    [server |-> server, channel |-> channel, due |-> t + GraceDelay]

\* the system message the handler of a part appends at time t
LeftNotice(channel, t) == Message("System", <<"You left channel ", channel>>, t, TRUE)

\* C32: a part of the own nickname read for a chat of the list leaves the
\* chat in the list, appends the system message to its history and sets a
\* timer one grace delay ahead; the timer does not fire before its delay has
\* passed, and when it fires on a chat of the list the chat leaves the list
\* and its history is dropped.
C32_LeftChatStaysForTheGraceDelay ==
    /\ [](\A c \in GroupChannels :
             Registered(clients, "s1") /\ SocketUsable(clients, "s1")
             /\ HasChat(chats, "s1", c) =>
                 LET after == process_once(Store, clients,
                                           <<Event("part", c, OwnNick, <<>>)>>,
                                           "s1", now, now)
                 IN  /\ after.chats = chats
                     /\ History(after.chat_models, "s1", c) =
                            Append(History(chat_models, "s1", c), LeftNotice(c, now))
                     /\ after.timers = Append(timers, GraceTimer("s1", c, now)))
    /\ [][Len(timers') < Len(timers) =>
             \E i \in 1..Len(timers) :
                 /\ timers' = RemoveAt(timers, i)
                 /\ timers[i].due <= now
                 /\ ~HasChat(chats', timers[i].server, timers[i].channel)
                 /\ HasChat(chats, timers[i].server, timers[i].channel) =>
                        ~HasModel(chat_models', timers[i].server, timers[i].channel)]_vars

\* the part was read for a chat of the list: the chat is still there, the
\* notice is the last message of its history, the timer is not due yet
C32_Witness ==
    /\ timers = <<GraceTimer("s1", "#a", StartTime)>>
    /\ now < timers[1].due
    /\ HasChat(chats, "s1", "#a")
    /\ History(chat_models, "s1", "#a") # <<>>
    /\ History(chat_models, "s1", "#a")[Len(History(chat_models, "s1", "#a"))]
           = LeftNotice("#a", StartTime)

\* ------------------------------------------------- the last-update time stamp

\* C33: the last-update time stamp of a chat never decreases.  From every
\* history a run produces, an append (of a message or of a system message),
\* a forced refresh and a check leave it at least what it was, also a check
\* right after an append; right after an append it is at least the time stamp
\* of the message appended; and no step of a run lowers it.
C33_LastUpdateNeverDecreases ==
    /\ [](\A k \in ModelKeys(chat_models) :
             LET cm == chat_models[k[1]][k[2]]
                 was == cm.last_update_timestamp
             IN  /\ was <= now
                 /\ update_messages_if_needed(cm).last_update_timestamp >= was
                 /\ \A t1 \in now..MaxClock :
                        /\ force_data_changed(cm, t1).last_update_timestamp >= was
                        /\ \A t2 \in t1..MaxClock :
                             LET a == add_message(cm, "bob", <<"hi">>, FALSE, t1, t2)
                                 b == add_system_message(cm, <<"hi">>, t1, t2)
                             IN  /\ a.last_update_timestamp >= was
                                 /\ a.last_update_timestamp >= a.messages[Len(a.messages)].timestamp
                                 /\ b.last_update_timestamp >= was
                                 /\ b.last_update_timestamp >= b.messages[Len(b.messages)].timestamp
                                 /\ update_messages_if_needed(a).last_update_timestamp
                                        >= a.last_update_timestamp)
    /\ [][\A k \in ModelKeys(chat_models) \cap ModelKeys(chat_models') :
              chat_models'[k[1]][k[2]].last_update_timestamp
                  >= chat_models[k[1]][k[2]].last_update_timestamp]_vars

\* a message was appended to a chat after the clock had advanced
C33_Witness ==
    /\ HasModel(chat_models, "s1", "#a")
    /\ Len(chat_models["s1"]["#a"].messages) = 2
    /\ chat_models["s1"]["#a"].messages[1].timestamp = StartTime
    /\ chat_models["s1"]["#a"].messages[2].timestamp > StartTime
    /\ chat_models["s1"]["#a"].last_update_timestamp = now

\* ------------------------------------------------------------ the active pair

\* C34: in every state the active pair is empty (no server and no channel) or
\* is the identity of a chat of the chat list.
C34_ActiveChatIsInTheList ==
    \/ active_server \in {None, ""} /\ active_channel \in {None, ""}
    \/ HasChat(chats, active_server, active_channel)

\* C35: a chat that was joined again after the part that set a timer is not
\* removed by that timer: while a timer is pending for a channel of a live
\* session, a join of the own nickname read for that channel before the
\* timer fires leaves the chat in the list after the timer has fired.
C35_RejoinedChatSurvivesTheTimer ==
    \A i \in 1..Len(timers) :
        LET s == timers[i].server
            c == timers[i].channel
        IN  Registered(clients, s) /\ SocketUsable(clients, s) =>
                LET joined == process_once(Store, clients,
                                           <<Event("join", c, OwnNick, <<>>)>>,
                                           s, now, now)
                IN  HasChat(Fired(joined, i).chats, s, c)

\* C36: after the user has left a channel, the part has been read and the
\* timer it set has fired, the store holds nothing for the channel: no entry
\* of the chat list and no history.
C36_LeaveLeavesNoState ==
    \A c \in GroupChannels :
        Registered(clients, "s1") /\ SocketUsable(clients, "s1") /\ timers = <<>> =>
            LET left == leave_channel(Store, clients, "s1", c).m
                parted == process_once(left, clients,
                                       <<Event("part", c, OwnNick, <<>>)>>,
                                       "s1", now, now)
                gone == Fired(parted, Len(parted.timers))
            IN  /\ ~HasChat(gone.chats, "s1", c)
                /\ ~HasModel(gone.chat_models, "s1", c)

\* ------------------------------------------------------- histories are kept

\* C37: add_channel, set_active_chat and a join of the own nickname discard
\* no message of the identity they are called for: the history after the call
\* begins with the history before it, also when the history was filled
\* before the chat had an entry in the list.
C37_HistoryIsKept ==
    \A c \in GroupChannels :
        LET before == History(chat_models, "s1", c)
            keeps(m) == /\ Len(History(m.chat_models, "s1", c)) >= Len(before)
                        /\ SubSeq(History(m.chat_models, "s1", c), 1, Len(before)) = before
        IN  /\ keeps(add_channel(Store, "s1", c, FALSE, now).m)
            /\ keeps(set_active_chat(Store, "s1", c, now).m)
            /\ keeps(on_channel_joined(Store, "s1", c, now, now))

\* ------------------------------------------------- the refresh of one chat

\* C38: refresh_chat(server, channel) emits messagesUpdated, and forces the
\* refresh of the data, only for the active pair: a refresh of a channel
\* that has the name of the active channel but is on another server than
\* the active one emits nothing.
C38_RefreshNotifiesTheActivePairOnly ==
    \A s \in Servers : \A c \in GroupChannels \cup {s} :
        LET r == refresh_chat(Store, clients, s, c, <<>>, now, now)
        IN  UpdatesEmitted(r.m) # {} => IsActive(Store, s, c)

\* ------------------------------------------------------ no server is starved

\* the time stamp of the last drain of server by a tick (0: none yet)
LastDrain(server) == DictGet(last_update_time, server, 0)

\* C39: no registered server is skipped forever.  Whenever a server is
\* registered and due (its last drain by a tick lies at least the minimum
\* interval back) while no activation is in flight, a tick drains it later
\* on, so that it is no longer due, unless it leaves the registry first;
\* whatever the sockets of the servers deliver and whichever polls fail.
C39_EveryServerIsDrainedAgain ==
    \A s \in Servers :
        (Idle /\ Registered(clients, s) /\ now - LastDrain(s) >= MinInterval)
            ~> (~Registered(clients, s) \/ now - LastDrain(s) < MinInterval)

\* the second of two sessions was drained by a second tick although the
\* socket of the first is closed
C39_Witness ==
    /\ get_servers(clients) = <<"s1", "s2">>
    /\ ~SocketUsable(clients, "s1")
    /\ "s2" \in DOMAIN drains
    /\ Len(drains["s2"]) = 2
    /\ LastDrain("s2") = drains["s2"][2]

\* ---------------------------------------------------------- the reactor thread

\* C40: after every successful connect a reactor loop is running with its
\* flag set: whatever the reactor was before, also stopped with its old
\* thread still alive, it is running and its thread alive once the connect
\* has registered the session.
C40_ConnectLeavesALoopRunning ==
    LET r == after_connect(reactor)
    IN  r.running /\ r.thread = "alive"

====
